---- MODULE Spec2Model ----
(***************************************************************************)
(* Haushaltsbuch (src/main.py): the JSON record store, the line            *)
(* normalizer, the startup migrations and the request handlers, as a       *)
(* state machine.  Request handlers run on worker threads; each read_db    *)
(* and each write_db is one atomic step (each holds _DB_LOCK for its own   *)
(* duration only), so a handler is several steps.                          *)
(***************************************************************************)
EXTENDS Integers, Sequences, FiniteSets, TLC

(***************************************************************************)
(* Bounds of the model.                                                    *)
(***************************************************************************)
\* raw subitems per input line given to the normalizer
MaxSubs == 2
\* lines in the dataset file found at first boot
MaxInitLines == 2
\* authenticated requests served in one behaviour
MaxReqs == 2
\* times the process is started in one behaviour
MaxBoots == 2

(***************************************************************************)
(* Python / JSON values.  Every scalar is a record of one shape, so that   *)
(* values of different Python types can be compared:                       *)
(*   k = "missing"  the key is absent from the mapping                     *)
(*   k = "none"     None / null                                            *)
(*   k = "num"      an int or float, n its value                           *)
(*   k = "bool"     True (n = 1) or False (n = 0)                          *)
(*   k = "str"      a string: s when n = 0, the n-th generated uuid        *)
(*                  when s = "uuid"                                        *)
(***************************************************************************)
Missing == [k |-> "missing", n |-> 0, s |-> ""]
None == [k |-> "none", n |-> 0, s |-> ""]
Num(i) == [k |-> "num", n |-> i, s |-> ""]
Str(x) == [k |-> "str", n |-> 0, s |-> x]
Bool(b) == [k |-> "bool", n |-> IF b THEN 1 ELSE 0, s |-> ""]
\* str(uuid.uuid4()): the i-th identifier generated, distinct from all others
Uuid(i) == [k |-> "str", n |-> i, s |-> "uuid"]

\* d.get(key): an absent key reads as None
Get(v) == IF v.k = "missing" THEN None ELSE v

\* Python truthiness of a scalar
Truthy(v) ==
    CASE v.k = "missing" -> FALSE
      [] v.k = "none" -> FALSE
      [] v.k = "num" -> v.n # 0
      [] v.k = "bool" -> v.n = 1
      [] v.k = "str" -> ~(v.s = "" /\ v.n = 0)
      [] OTHER -> TRUE

\* x or d
Or(v, d) == IF Truthy(v) THEN Get(v) ELSE d

\* the strings float() parses, with their values
NumericStr(s) == s \in {"7", "2"}
StrToNum(s) == CASE s = "7" -> 7 [] s = "2" -> 2 [] OTHER -> 0

\* float(v) returns (FloatOk) or raises TypeError / ValueError
FloatOk(v) == v.k \in {"num", "bool"} \/ (v.k = "str" /\ v.n = 0 /\ NumericStr(v.s))
FloatVal(v) == IF v.k = "str" THEN Num(StrToNum(v.s)) ELSE Num(v.n)

\* try: float(v or 0) except (TypeError, ValueError): 0.0
FloatOrZero(v) == IF FloatOk(Or(v, Num(0))) THEN FloatVal(Or(v, Num(0))) ELSE Num(0)

\* isinstance(v, (int, float)); bool is a subclass of int
IsNumber(v) == v.k \in {"num", "bool"}

\* str.lower() and str.strip() on the strings of the model
Lower(s) ==
    CASE s = "Food" -> "food"
      [] s = "FOOD" -> "food"
      [] s = "Thom7e" -> "thom7e"
      [] OTHER -> s
Strip(s) == CASE s = "  " -> "" [] s = " Misc " -> "Misc" [] OTHER -> s
LowerV(v) == IF v.k = "str" /\ v.n = 0 THEN Str(Lower(v.s)) ELSE v
StripV(v) == IF v.k = "str" /\ v.n = 0 THEN Str(Strip(v.s)) ELSE v

(***************************************************************************)
(* Lines and subitems.  A subitems field is absent, null, a number (not    *)
(* iterable) or a list; an element of the list is a mapping (dict = TRUE)  *)
(* or something else.                                                      *)
(***************************************************************************)
NoSubs == [k |-> "missing", items |-> << >>]
NullSubs == [k |-> "none", items |-> << >>]
NumSubs == [k |-> "num", items |-> << >>]
ListSubs(items) == [k |-> "list", items |-> items]

NotADict == [dict |-> FALSE, id |-> Missing, label |-> Missing, amount |-> Missing]
Sub(id, label, amount) == [dict |-> TRUE, id |-> id, label |-> label, amount |-> amount]

EmptyLine ==
    [id |-> Missing, label |-> Missing, type |-> Missing, category |-> Missing,
     base_amount |-> Missing, amount |-> Missing, subitems |-> NoSubs,
     is_variable |-> Missing, user_id |-> Missing]

\* l.get("subitems") or []: the list iterated, and whether iterating raises
SubsRaises(subs) == subs.k = "num"
SubsItems(subs) == IF subs.k = "list" THEN subs.items ELSE << >>

RECURSIVE SumAmounts(_)
SumAmounts(items) ==
    IF items = << >> THEN 0
    ELSE FloatVal(Or(Head(items).amount, Num(0))).n + SumAmounts(Tail(items))

\* total_of_line raises when a subitem is no mapping or a float() fails
total_raises(l) ==
    IF SubsItems(l.subitems) # << >>
    THEN \E i \in 1..Len(l.subitems.items) :
            \/ ~l.subitems.items[i].dict
            \/ ~FloatOk(Or(l.subitems.items[i].amount, Num(0)))
    ELSE ~FloatOk(Or(l.base_amount, Num(0)))

total_of_line(l) ==
    IF SubsItems(l.subitems) # << >>
    THEN SumAmounts(l.subitems.items)
    ELSE FloatVal(Or(l.base_amount, Num(0))).n

\* the number of identifiers generated for items[1..j]
RECURSIVE IdsNeeded(_, _)
IdsNeeded(items, j) ==
    IF j = 0 THEN 0
    ELSE IdsNeeded(items, j - 1)
         + (IF items[j].dict /\ Truthy(items[j].id) THEN 0 ELSE 1)

\* a normalize_sub that gives every subitem a new identifier
normalize_sub_new_id(si, fresh) ==
    LET s == IF si.dict THEN si ELSE Sub(Missing, Missing, Missing)
    IN  Sub(fresh, Or(s.label, Str("")), FloatOrZero(s.amount))

\* one subitem, normalized; fresh is the identifier generated if it has none
normalize_sub(si, fresh) ==
    LET s == IF si.dict THEN si ELSE Sub(Missing, Missing, Missing)
    IN  Sub(Or(s.id, fresh), Or(s.label, Str("")), FloatOrZero(s.amount))

DefaultCategory(type) ==
    IF type = Str("expense") THEN Str("sonstige ausgaben") ELSE Str("sonstige einnahmen")

\* v if v in (True, False, None) else None; 1 == True and 0 == False in Python
CleanIsVariable(v) ==
    IF Get(v).k \in {"bool", "none"} \/ (v.k = "num" /\ v.n \in {0, 1})
    THEN Get(v) ELSE None

normalize_raises(raw) == SubsRaises(raw.subitems)

\* identifiers generated by normalize_line(raw)
normalize_ids(raw) ==
    (IF Truthy(raw.id) THEN 0 ELSE 1)
    + IdsNeeded(SubsItems(raw.subitems), Len(SubsItems(raw.subitems)))

\* normalize_line(raw), the identifiers generated being Uuid(seed+1), ...
normalize_line(raw, seed) ==
    LET own == IF Truthy(raw.id) THEN 0 ELSE 1
        type == IF raw.type \in {Str("income"), Str("expense")}
                THEN raw.type ELSE Str("expense")
        items == SubsItems(raw.subitems)
    IN  [raw EXCEPT
            !.id = Or(raw.id, Uuid(seed + 1)),
            !.type = type,
            !.category = IF Truthy(raw.category) THEN raw.category
                         ELSE DefaultCategory(type),
            !.base_amount =
                IF raw.base_amount.k \in {"missing", "none"}
                THEN IF IsNumber(raw.amount) THEN Num(raw.amount.n) ELSE Num(0)
                ELSE raw.base_amount,
            !.subitems = ListSubs(
                [j \in 1..Len(items) |->
                    normalize_sub(items[j], Uuid(seed + own + IdsNeeded(items, j)))]),
            !.is_variable = CleanIsVariable(raw.is_variable)]

(***************************************************************************)
(* The dataset file.  st = "missing": no file at DB_PATH; "corrupt": a     *)
(* file json.load rejects; "ok": a JSON document with lines, users and     *)
(* version (version Missing: the key is absent).                           *)
(***************************************************************************)
Dataset(lines, users, version) ==
    [st |-> "ok", lines |-> lines, users |-> users, version |-> version]

_empty_db == Dataset(<< >>, << >>, Num(1))

ensure_db_shapes(data) ==
    [data EXCEPT !.version = IF @.k = "missing" THEN Num(1) ELSE @]

\* what read_db returns, and what it leaves at DB_PATH
read_db(f) == IF f.st = "ok" THEN ensure_db_shapes(f) ELSE _empty_db
read_db_file(f) == IF f.st = "ok" THEN f ELSE _empty_db

write_db(data) == ensure_db_shapes(data)

User(id, username) == [id |-> id, username |-> username]

\* identifiers generated while normalizing lines[1..j]
RECURSIVE LinesIds(_, _)
LinesIds(lines, j) ==
    IF j = 0 THEN 0 ELSE LinesIds(lines, j - 1) + normalize_ids(lines[j])

NormalizeAll(lines, seed) ==
    [j \in 1..Len(lines) |-> normalize_line(lines[j], seed + LinesIds(lines, j - 1))]

AnyRaises(lines) == \E j \in 1..Len(lines) : normalize_raises(lines[j])

\* migrate_db(data): the dataset it returns (and has written when it changed)
migrate_db(data, seed) ==
    LET new_lines == NormalizeAll(data.lines, seed)
    IN  IF new_lines # data.lines
        THEN [data EXCEPT !.lines = new_lines, !.version = Num(1)]
        ELSE data

\* not l.get("user_id")
Orphan(l) == ~Truthy(l.user_id)

AttachTo(lines, uid) ==
    [j \in 1..Len(lines) |->
        IF Orphan(lines[j]) THEN [lines[j] EXCEPT !.user_id = uid] ELSE lines[j]]

\* a migrate_add_default_user that does not look whether users exist
migrate_add_default_user_always(data, fresh) ==
    [data EXCEPT !.users = Append(@, User(fresh, "thom7e")),
                 !.lines = AttachTo(data.lines, fresh)]

\* migrate_add_default_user on the dataset read; fresh is the uuid drawn
migrate_add_default_user(data, fresh) ==
    IF data.users = << >>
    THEN [data EXCEPT !.users = << User(fresh, "thom7e") >>,
                      !.lines = AttachTo(data.lines, fresh)]
    ELSE data

\* a PreferredUser that takes the first user whatever the names
PreferredUser_first(users) == users[1]

\* next((u for u in users if u.username.lower() == "thom7e"), users[0])
PreferredUser(users) ==
    IF \E i \in 1..Len(users) : Lower(users[i].username) = "thom7e"
    THEN users[CHOOSE i \in 1..Len(users) :
                 /\ Lower(users[i].username) = "thom7e"
                 /\ \A j \in 1..(i - 1) : Lower(users[j].username) # "thom7e"]
    ELSE users[1]

migrate_attach_orphans(data) ==
    IF data.users = << >> THEN data
    ELSE [data EXCEPT !.lines = AttachTo(data.lines, PreferredUser(data.users).id)]

\* _startup: the file migrate_db and migrate_add_default_user leave
StartupSeeded(f, seed) ==
    LET d0 == read_db(f)
        d1 == write_db(migrate_db(d0, seed))
        s1 == seed + LinesIds(d0.lines, Len(d0.lines))
    IN  write_db(migrate_add_default_user(d1, Uuid(s1 + 1)))

\* _startup: the file it leaves when no step raises
StartupFile(f, seed) == write_db(migrate_attach_orphans(StartupSeeded(f, seed)))

StartupIds(f) ==
    LET d0 == read_db(f)
    IN  LinesIds(d0.lines, Len(d0.lines)) + (IF d0.users = << >> THEN 1 ELSE 0)

StartupRaises(f) == AnyRaises(read_db(f).lines)

(***************************************************************************)
(* Requests.  A request carries the token's subject (uid), the path and    *)
(* query parameters and the JSON body; a body key that is absent is        *)
(* Missing.                                                                *)
(***************************************************************************)
NoBody ==
    [label |-> Missing, type |-> Missing, category |-> Missing,
     base_amount |-> Missing, subitems |-> NoSubs, is_variable |-> Missing,
     id |-> Missing, amount |-> Missing, old |-> Missing, new |-> Missing]

NoReq ==
    [op |-> "none", uid |-> Missing, line_id |-> Missing, sub_id |-> Missing,
     username |-> "", name |-> "", target |-> None, body |-> NoBody]

\* what a handler does: the status it answers with, the dataset it hands to
\* write_db (when wr), and the number of uuids it generated
Result(code, data, wr, ids) == [code |-> code, data |-> data, wr |-> wr, ids |-> ids]

UserIds(data) == {data.users[i].id : i \in 1..Len(data.users)}

\* a FindLine that leaves out the ownership test
FindLine_any_owner(lines, line_id, uid) ==
    LET hits == {i \in 1..Len(lines) : Get(lines[i].id) = line_id}
    IN  IF hits = {} THEN 0 ELSE CHOOSE i \in hits : \A j \in hits : i <= j

\* next((i for i,l in enumerate(lines) if l.id == line_id and l.user_id == uid), -1),
\* counted from 1; 0 when there is none
FindLine(lines, line_id, uid) ==
    LET hits == {i \in 1..Len(lines) :
                    Get(lines[i].id) = line_id /\ Get(lines[i].user_id) = uid}
    IN  IF hits = {} THEN 0 ELSE CHOOSE i \in hits : \A j \in hits : i <= j

\* the subitems a create_line / update_line body gives, rebuilt
BodySubs(items, seed) ==
    [j \in 1..Len(items) |->
        Sub(Or(items[j].id, Uuid(seed + IdsNeeded(items, j))),
            Or(items[j].label, Str("")),
            FloatOrZero(items[j].amount))]

\* a type test that only asks for some type
ValidType_any(t) == Truthy(t)

\* typ in ("income", "expense")
ValidType(t) == t \in {Str("income"), Str("expense")}

\* a register that compares the usernames as they are written
register_case_sensitive(data, r, seed) ==
    IF \E i \in 1..Len(data.users) : data.users[i].username = r.username
    THEN Result(400, data, FALSE, 0)
    ELSE Result(200,
                [data EXCEPT !.users = Append(@, User(Uuid(seed + 1), r.username))],
                TRUE, 1)

register(data, r, seed) ==
    IF \E i \in 1..Len(data.users) : Lower(data.users[i].username) = Lower(r.username)
    THEN Result(400, data, FALSE, 0)
    ELSE Result(200,
                [data EXCEPT !.users = Append(@, User(Uuid(seed + 1), r.username))],
                TRUE, 1)

create_line(data, r, seed) ==
    LET b == r.body
        label == StripV(Or(b.label, Str("")))
        typ == StripV(Or(b.type, Str("")))
        items == SubsItems(b.subitems)
        n == IdsNeeded(items, Len(items))
        new_line ==
            [EmptyLine EXCEPT
                !.id = Uuid(seed + n + 1),
                !.label = label,
                !.type = typ,
                !.category = Or(b.category, DefaultCategory(typ)),
                !.base_amount = FloatOrZero(b.base_amount),
                !.subitems = ListSubs(BodySubs(items, seed)),
                !.is_variable =
                    IF b.is_variable.k = "bool"
                       \/ (b.is_variable.k = "num" /\ b.is_variable.n \in {0, 1})
                    THEN b.is_variable ELSE None,
                !.user_id = r.uid]
    IN  IF ~Truthy(label) \/ ~ValidType(typ)
        THEN Result(422, data, FALSE, 0)
        ELSE Result(200, [data EXCEPT !.lines = Append(@, new_line)], TRUE, n + 1)

update_line(data, r, seed) ==
    LET b == r.body
        idx == FindLine(data.lines, r.line_id, r.uid)
        cur == data.lines[idx]
        label == IF b.label.k = "missing" THEN cur.label
                 ELSE Or(StripV(Or(b.label, Str(""))), Or(cur.label, Str("")))
        t == StripV(Or(b.type, Str("")))
        type == IF b.type.k # "missing" /\ ValidType(t) THEN t ELSE cur.type
        category == IF b.category.k = "missing" THEN cur.category
                    ELSE Or(b.category, DefaultCategory(Get(type)))
        base == IF b.base_amount.k # "missing" /\ FloatOk(Or(b.base_amount, Num(0)))
                THEN FloatVal(Or(b.base_amount, Num(0)))
                ELSE cur.base_amount
        replace == b.subitems.k = "list"
        items == SubsItems(b.subitems)
        new == [cur EXCEPT
                  !.label = label, !.type = type, !.category = category,
                  !.base_amount = base,
                  !.subitems = IF replace THEN ListSubs(BodySubs(items, seed)) ELSE @,
                  !.user_id = r.uid]
    IN  IF idx = 0
        THEN Result(404, data, FALSE, 0)
        ELSE Result(200, [data EXCEPT !.lines[idx] = new], TRUE,
                    IF replace THEN IdsNeeded(items, Len(items)) ELSE 0)

\* lines.pop(idx)
Pop(lines, idx) ==
    [j \in 1..(Len(lines) - 1) |-> IF j < idx THEN lines[j] ELSE lines[j + 1]]

delete_line(data, r, seed) ==
    LET idx == FindLine(data.lines, r.line_id, r.uid)
    IN  IF idx = 0
        THEN Result(404, data, FALSE, 0)
        ELSE Result(200, [data EXCEPT !.lines = Pop(@, idx)], TRUE, 0)

\* add_subitem answers 500 (nothing written) when normalize_line raises
add_subitem(data, r, seed) ==
    LET idx == FindLine(data.lines, r.line_id, r.uid)
        raw == data.lines[idx]
        n == normalize_ids(raw)
        line == normalize_line(raw, seed)
        si == Sub(Or(r.body.id, Uuid(seed + n + 1)),
                  Or(r.body.label, Str("")),
                  FloatOrZero(r.body.amount))
        new == [line EXCEPT !.subitems.items = Append(@, si)]
    IN  IF idx = 0 THEN Result(404, data, FALSE, 0)
        ELSE IF normalize_raises(raw) THEN Result(500, data, FALSE, 0)
        ELSE Result(200, [data EXCEPT !.lines[idx] = new], TRUE,
                    n + (IF Truthy(r.body.id) THEN 0 ELSE 1))

\* [x for x in items if x.get("id") != sub_id]
RECURSIVE WithoutSub(_, _)
WithoutSub(items, sub_id) ==
    IF items = << >> THEN << >>
    ELSE IF Get(Head(items).id) = sub_id THEN WithoutSub(Tail(items), sub_id)
    ELSE << Head(items) >> \o WithoutSub(Tail(items), sub_id)

\* a delete_subitem that folds what is left of the subitems into base_amount
delete_subitem_folding(data, r, seed) ==
    LET idx == FindLine(data.lines, r.line_id, r.uid)
        raw == data.lines[idx]
        line == normalize_line(raw, seed)
        kept == WithoutSub(line.subitems.items, r.sub_id)
        new == [line EXCEPT !.subitems.items = kept,
                            !.base_amount = Num(SumAmounts(kept))]
    IN  IF idx = 0 THEN Result(404, data, FALSE, 0)
        ELSE IF normalize_raises(raw) THEN Result(500, data, FALSE, 0)
        ELSE IF Len(kept) = Len(line.subitems.items)
        THEN Result(404, data, FALSE, normalize_ids(raw))
        ELSE Result(200, [data EXCEPT !.lines[idx] = new], TRUE, normalize_ids(raw))

delete_subitem(data, r, seed) ==
    LET idx == FindLine(data.lines, r.line_id, r.uid)
        raw == data.lines[idx]
        line == normalize_line(raw, seed)
        kept == WithoutSub(line.subitems.items, r.sub_id)
        new == [line EXCEPT !.subitems.items = kept]
    IN  IF idx = 0 THEN Result(404, data, FALSE, 0)
        ELSE IF normalize_raises(raw) THEN Result(500, data, FALSE, 0)
        ELSE IF Len(kept) = Len(line.subitems.items)
        THEN Result(404, data, FALSE, normalize_ids(raw))
        ELSE Result(200, [data EXCEPT !.lines[idx] = new], TRUE, normalize_ids(raw))

\* a CategoryMatches that leaves out the ownership test
CategoryMatches_any_owner(l, uid, name) ==
    LowerV(Or(l.category, Str(""))) = Str(Lower(name))

\* (l.get("category") or "").lower() == name.lower(), for the caller's lines
CategoryMatches(l, uid, name) ==
    /\ Get(l.user_id) = uid
    /\ LowerV(Or(l.category, Str(""))) = Str(Lower(name))

\* a delete_category whose fallback does not look at the line's type
delete_category_one_default(data, r, seed) ==
    LET hit(l) == CategoryMatches(l, r.uid, r.name)
        moved(l) ==
            [l EXCEPT !.category =
                IF Truthy(r.target) THEN r.target ELSE Str("sonstige ausgaben")]
        lines == [j \in 1..Len(data.lines) |->
                    IF hit(data.lines[j]) THEN moved(data.lines[j]) ELSE data.lines[j]]
        changed == \E j \in 1..Len(data.lines) : hit(data.lines[j])
    IN  Result(200, [data EXCEPT !.lines = lines], changed, 0)

delete_category(data, r, seed) ==
    LET hit(l) == CategoryMatches(l, r.uid, r.name)
        moved(l) ==
            [l EXCEPT !.category =
                IF Truthy(r.target) THEN r.target
                ELSE IF Or(l.type, Str("expense")) = Str("income")
                     THEN Str("sonstige einnahmen") ELSE Str("sonstige ausgaben")]
        lines == [j \in 1..Len(data.lines) |->
                    IF hit(data.lines[j]) THEN moved(data.lines[j]) ELSE data.lines[j]]
        changed == \E j \in 1..Len(data.lines) : hit(data.lines[j])
    IN  Result(200, [data EXCEPT !.lines = lines], changed, 0)

rename_category(data, r, seed) ==
    LET old == StripV(Or(r.body.old, Str("")))
        new == StripV(Or(r.body.new, Str("")))
        hit(l) == CategoryMatches(l, r.uid, old.s)
        lines == [j \in 1..Len(data.lines) |->
                    IF hit(data.lines[j])
                    THEN [data.lines[j] EXCEPT !.category = new] ELSE data.lines[j]]
        changed == \E j \in 1..Len(data.lines) : hit(data.lines[j])
    IN  IF ~Truthy(old) \/ ~Truthy(new)
        THEN Result(422, data, FALSE, 0)
        ELSE Result(200, [data EXCEPT !.lines = lines], changed, 0)

(***************************************************************************)
(* The read-only views.  Each takes the caller's lines in stored order;    *)
(* summary and groups normalize them first.  A sorted list of distinct     *)
(* names is modelled as their set, a mapping as a function.                *)
(***************************************************************************)
\* [l for l in lines if l.get("user_id") == uid]
RECURSIVE OwnedBy(_, _)
OwnedBy(lines, uid) ==
    IF lines = << >> THEN << >>
    ELSE (IF Get(Head(lines).user_id) = uid THEN << Head(lines) >> ELSE << >>)
         \o OwnedBy(Tail(lines), uid)

\* l.get("category") or "ohne"
CategoryName(l) == Or(l.category, Str("ohne"))

\* sum(total_of_line(l) for l in lines if l["type"] == type)
RECURSIVE TotalOfType(_, _)
TotalOfType(lines, type) ==
    IF lines = << >> THEN 0
    ELSE (IF Head(lines).type = Str(type) THEN total_of_line(Head(lines)) ELSE 0)
         + TotalOfType(Tail(lines), type)

\* total_of_line(l) * (1 if l["type"] == "income" else -1)
SignedTotal(l) ==
    IF l.type = Str("income") THEN total_of_line(l) ELSE 0 - total_of_line(l)

\* what the loop of summary has accumulated in cats[c]
RECURSIVE CategoryTotal(_, _)
CategoryTotal(lines, c) ==
    IF lines = << >> THEN 0
    ELSE (IF CategoryName(Head(lines)) = c THEN SignedTotal(Head(lines)) ELSE 0)
         + CategoryTotal(Tail(lines), c)

\* the lines of one group, and its total
RECURSIVE GroupLines(_, _)
GroupLines(lines, key) ==
    IF lines = << >> THEN << >>
    ELSE (IF << Head(lines).type, CategoryName(Head(lines)) >> = key
          THEN << Head(lines) >> ELSE << >>)
         \o GroupLines(Tail(lines), key)

RECURSIVE GroupTotal(_)
GroupTotal(lines) ==
    IF lines = << >> THEN 0 ELSE SignedTotal(Head(lines)) + GroupTotal(Tail(lines))

\* normalize_line or total_of_line raises on one of the caller's lines
ViewRaises(data, uid) ==
    LET own == OwnedBy(data.lines, uid)
    IN  \/ AnyRaises(own)
        \/ \E j \in 1..Len(own) : total_raises(normalize_line(own[j], 0))

categories(data, uid) ==
    LET own == OwnedBy(data.lines, uid)
    IN  {CategoryName(own[j]) : j \in 1..Len(own)}

summary(data, uid, seed) ==
    LET lines == NormalizeAll(OwnedBy(data.lines, uid), seed)
        inc == TotalOfType(lines, "income")
        exp == TotalOfType(lines, "expense")
        cats == {CategoryName(lines[j]) : j \in 1..Len(lines)}
    IN  [income |-> inc, expense |-> exp, net |-> inc - exp,
         categories |-> [c \in cats |-> CategoryTotal(lines, c)]]

groups(data, uid, seed) ==
    LET lines == NormalizeAll(OwnedBy(data.lines, uid), seed)
        keys == {<< lines[j].type, CategoryName(lines[j]) >> : j \in 1..Len(lines)}
    IN  [key \in keys |->
            [type |-> key[1], category |-> key[2],
             total |-> GroupTotal(GroupLines(lines, key)),
             lines |-> GroupLines(lines, key)]]

\* a view answers 200, or 500 when it raised; it writes nothing
Viewed(data, uid, normalizes) ==
    LET own == OwnedBy(data.lines, uid)
    IN  IF normalizes /\ ViewRaises(data, uid) THEN Result(500, data, FALSE, 0)
        ELSE Result(200, data, FALSE,
                    IF normalizes THEN LinesIds(own, Len(own)) ELSE 0)

Handle(data, r, seed) ==
    CASE r.op = "register" -> register(data, r, seed)
      [] r.op = "create_line" -> create_line(data, r, seed)
      [] r.op = "update_line" -> update_line(data, r, seed)
      [] r.op = "delete_line" -> delete_line(data, r, seed)
      [] r.op = "add_subitem" -> add_subitem(data, r, seed)
      [] r.op = "delete_subitem" -> delete_subitem(data, r, seed)
      [] r.op = "delete_category" -> delete_category(data, r, seed)
      [] r.op = "rename_category" -> rename_category(data, r, seed)
      [] r.op = "categories" -> Viewed(data, r.uid, FALSE)
      [] r.op \in {"summary", "groups"} -> Viewed(data, r.uid, TRUE)

(***************************************************************************)
(* The inputs of the model.                                                *)
(***************************************************************************)
SeqsUpTo(S, n) == UNION {[1..k -> S] : k \in 0..n}

\* users a dataset file may hold at first boot (written by an earlier run)
InitUsers ==
    { << >>,
      << User(Str("u1"), "thom7e") >>,
      << User(Str("u1"), "bob") >>,
      << User(Str("u1"), "bob"), User(Str("u2"), "Thom7e") >> }

\* lines a dataset file may hold at first boot: legacy shapes and current ones
InitLines ==
    { EmptyLine,
      [EmptyLine EXCEPT !.id = Str("L1"), !.label = Str("Rent"),
                        !.type = Str("income"), !.amount = Num(5)],
      [EmptyLine EXCEPT !.id = Str("L1"), !.type = Str("bogus"),
                        !.category = Str("Food"), !.base_amount = Str("abc"),
                        !.user_id = Str("u1")],
      [EmptyLine EXCEPT !.id = Str("L1"), !.label = Str("Rent"),
                        !.type = Str("expense"), !.category = Str("Food"),
                        !.base_amount = Num(5),
                        !.subitems = ListSubs(<< Sub(Str("s1"), Str("x"), Num(4)) >>),
                        !.is_variable = None, !.user_id = Str("u1")],
      [EmptyLine EXCEPT !.id = Str("L3"), !.subitems = NumSubs],
      [EmptyLine EXCEPT !.id = Str("L2"), !.category = Str("food"),
                        !.subitems = ListSubs(<< NotADict,
                                                 Sub(Missing, Missing, Str("abc")) >>)],
      [EmptyLine EXCEPT !.id = Str("L2"), !.label = Str("Job"),
                        !.type = Str("income"), !.category = Str("food"),
                        !.base_amount = Num(3), !.subitems = ListSubs(<< >>),
                        !.is_variable = None, !.user_id = Str("u2")] }

\* a stored user_id names a user of the same file
OwnersKnown(lines, users) ==
    \A j \in 1..Len(lines) :
        lines[j].user_id.k = "missing"
        \/ \E i \in 1..Len(users) : users[i].id = lines[j].user_id

InitFiles ==
    {f \in {Dataset(ls, us, v) : ls \in SeqsUpTo(InitLines, MaxInitLines),
                                 us \in InitUsers, v \in {Missing, Num(1)}} :
        OwnersKnown(f.lines, f.users)}
    \cup {[_empty_db EXCEPT !.st = "missing"], [_empty_db EXCEPT !.st = "corrupt"]}

\* the dataset files the request-serving specification starts from
ServedFiles ==
    { [_empty_db EXCEPT !.st = "missing"],
      Dataset(<< [EmptyLine EXCEPT !.id = Str("L3"), !.subitems = NumSubs] >>,
              << >>, Num(1)),
      Dataset(<< [EmptyLine EXCEPT
                    !.id = Str("L1"), !.label = Str("Rent"),
                    !.type = Str("expense"), !.category = Str("Food"),
                    !.base_amount = Num(5),
                    !.subitems = ListSubs(<< Sub(Str("s1"), Str("x"), Num(4)) >>),
                    !.is_variable = None, !.user_id = Str("u1")],
                 [EmptyLine EXCEPT
                    !.id = Str("L2"), !.label = Str("Job"),
                    !.type = Str("income"), !.category = Str("food"),
                    !.base_amount = Num(3), !.subitems = ListSubs(<< >>),
                    !.is_variable = None, !.user_id = Str("u2")] >>,
              << User(Str("u1"), "bob"), User(Str("u2"), "Thom7e") >>, Num(1)) }

\* request bodies
CreateBodies ==
    { [NoBody EXCEPT !.label = Str("Rent"), !.type = Str("expense"),
                     !.base_amount = Str("7")],
      [NoBody EXCEPT !.label = Str("Rent"), !.type = Str("bogus")],
      [NoBody EXCEPT !.label = Str("  "), !.type = Str("income")] }

UpdateBodies ==
    { [NoBody EXCEPT !.type = Str("bogus"), !.label = Str("New")],
      [NoBody EXCEPT !.subitems = ListSubs(<< Sub(Str("s1"), Missing, Num(4)) >>)] }

SubitemBodies ==
    { [NoBody EXCEPT !.amount = Str("abc")] }

RenameBodies ==
    { [NoBody EXCEPT !.old = Str("food"), !.new = Str("Groceries")],
      [NoBody EXCEPT !.old = Str("Food"), !.new = Str("  ")] }

DeleteCategoryArgs ==
    { << "FOOD", None >>, << "FOOD", Str("Misc") >>, << "sonstige ausgaben", None >> }

\* line ids and subitem ids a client may name: those stored, and one that is not
LineIds(data) == {Get(data.lines[j].id) : j \in 1..Len(data.lines)} \cup {Str("nope")}
SubIds(data) ==
    UNION {{Get(SubsItems(data.lines[j].subitems)[i].id) :
              i \in 1..Len(SubsItems(data.lines[j].subitems))} :
           j \in 1..Len(data.lines)}
    \cup {Str("nope")}

\* the read-only requests of user uid
ViewRequests(uid) ==
    {[NoReq EXCEPT !.uid = uid, !.op = o] : o \in {"categories", "summary", "groups"}}

\* the requests a client holding user uid's token may send
Requests(data, uid) ==
    LET R == [NoReq EXCEPT !.uid = uid]
    IN  {[R EXCEPT !.op = "create_line", !.body = b] : b \in CreateBodies}
        \cup {[R EXCEPT !.op = "update_line", !.line_id = l, !.body = b] :
                l \in LineIds(data), b \in UpdateBodies}
        \cup {[R EXCEPT !.op = "delete_line", !.line_id = l] : l \in LineIds(data)}
        \cup {[R EXCEPT !.op = "add_subitem", !.line_id = l, !.body = b] :
                l \in LineIds(data), b \in SubitemBodies}
        \cup {[R EXCEPT !.op = "delete_subitem", !.line_id = l, !.sub_id = x] :
                l \in LineIds(data), x \in SubIds(data)}
        \cup {[R EXCEPT !.op = "delete_category", !.name = a[1], !.target = a[2]] :
                a \in DeleteCategoryArgs}
        \cup {[R EXCEPT !.op = "rename_category", !.body = b] : b \in RenameBodies}
        \cup ViewRequests(uid)

RegisterRequests ==
    {[NoReq EXCEPT !.op = "register", !.username = n] : n \in {"bob", "Thom7e"}}

\* inputs of the normalizer: the fields varied together with few subitem
\* shapes, and the subitems varied with few base_amount shapes
RawSubs ==
    {NotADict}
    \cup {Sub(i, Missing, a) : i \in {Missing, Str("s1")},
                               a \in {Missing, Num(4), Str("abc")}}
    \cup {Sub(Str("s1"), Str("x"), Str("2"))}

RawInputs ==
    { [EmptyLine EXCEPT !.id = i, !.type = t, !.category = c, !.base_amount = b,
                        !.amount = a, !.is_variable = v, !.subitems = s] :
        i \in {Missing, Str("L1")},
        t \in {Missing, Str("income"), Str("expense"), Str("bogus")},
        c \in {Missing, Str(""), Str("Food")},
        b \in {Missing, None, Num(0), Num(5), Str("abc")},
        a \in {Missing, Num(3), Str("abc")},
        v \in {Missing, Bool(TRUE), Num(1), Str("yes")},
        s \in {NoSubs, NullSubs, NumSubs, ListSubs(<< >>),
               ListSubs(<< Sub(Missing, Missing, Num(4)) >>)} }
    \cup
    { [EmptyLine EXCEPT !.base_amount = b, !.subitems = ListSubs(items)] :
        b \in {Missing, Num(5), Str("abc")},
        items \in SeqsUpTo(RawSubs, MaxSubs) }

(***************************************************************************)
(* The state.                                                              *)
(*   file     the document at DB_PATH                                      *)
(*   nextId   the number of uuids generated so far                         *)
(*   phase    "down" before _startup, "up" while serving, "crashed" when   *)
(*            _startup raised                                              *)
(*   boots    the number of times _startup has run to its end              *)
(*   pc, req, pending   per worker thread: where its handler stands        *)
(*            ("idle", "authed": get_current_user returned, "loaded": the  *)
(*            handler has read the dataset and built what it will write),  *)
(*            its request, and the dataset it will hand to write_db        *)
(*   nreq     requests received that passed get_current_user               *)
(*   resp     the status of the response the last step sent (0: none)      *)
(*   norm     the normalizer applied to one input (SpecNorm)               *)
(***************************************************************************)
VARIABLES file, nextId, phase, boots, pc, req, pending, nreq, resp, norm

vars == << file, nextId, phase, boots, pc, req, pending, nreq, resp, norm >>

Workers == {"w1", "w2"}

NormIdle ==
    [stage |-> "idle", raw |-> EmptyLine, once |-> EmptyLine, twice |-> EmptyLine,
     total |-> 0]

InitWith(files) ==
    /\ file \in files
    /\ nextId = 0
    /\ phase = "down"
    /\ boots = 0
    /\ pc = [w \in Workers |-> "idle"]
    /\ req = [w \in Workers |-> NoReq]
    /\ pending = [w \in Workers |-> _empty_db]
    /\ nreq = 0
    /\ resp = 0
    /\ norm = NormIdle

Init == InitWith(ServedFiles)

\* _startup runs before any request is served
Startup ==
    /\ phase = "down"
    /\ boots < MaxBoots
    /\ \/ /\ StartupRaises(file)
          /\ phase' = "crashed"
          /\ file' = read_db_file(file)
          /\ UNCHANGED << nextId, boots >>
       \/ /\ ~StartupRaises(file)
          /\ phase' = "up"
          /\ file' = StartupFile(file, nextId)
          /\ nextId' = nextId + StartupIds(file)
          /\ boots' = boots + 1
    /\ resp' = 0
    /\ UNCHANGED << pc, req, pending, nreq, norm >>

\* the process stops; requests in flight are dropped
Shutdown ==
    /\ phase = "up"
    /\ phase' = "down"
    /\ pc' = [w \in Workers |-> "idle"]
    /\ req' = [w \in Workers |-> NoReq]
    /\ pending' = [w \in Workers |-> _empty_db]
    /\ resp' = 0
    /\ UNCHANGED << file, nextId, boots, nreq, norm >>

\* get_current_user: the token is missing, expired, invalid or of no stored user
AuthFail(w) ==
    /\ phase = "up" /\ pc[w] = "idle"
    /\ resp' = 401
    /\ UNCHANGED << file, nextId, phase, boots, pc, req, pending, nreq, norm >>

\* get_current_user reads the dataset and finds the token's subject
Auth(w) ==
    /\ phase = "up" /\ pc[w] = "idle" /\ nreq < MaxReqs
    /\ \E uid \in UserIds(read_db(file)) :
            /\ req' = [req EXCEPT ![w] = [NoReq EXCEPT !.uid = uid]]
            /\ pc' = [pc EXCEPT ![w] = "authed"]
    /\ nreq' = nreq + 1
    /\ resp' = 0
    /\ UNCHANGED << file, nextId, phase, boots, pending, norm >>

\* the handler reads the dataset and runs up to its write_db or its response
Run(w, r) ==
    LET res == Handle(read_db(file), r, nextId)
    IN  /\ nextId' = nextId + res.ids
        /\ \/ /\ res.wr
              /\ pc' = [pc EXCEPT ![w] = "loaded"]
              /\ req' = [req EXCEPT ![w] = r]
              /\ pending' = [pending EXCEPT ![w] = res.data]
              /\ resp' = 0
           \/ /\ ~res.wr
              /\ pc' = [pc EXCEPT ![w] = "idle"]
              /\ req' = [req EXCEPT ![w] = NoReq]
              /\ resp' = res.code
              /\ UNCHANGED pending
        /\ UNCHANGED << file, phase, boots, nreq, norm >>

\* get_current_user does not look at the path, the query or the body: they
\* are drawn here, where the handler first uses them
Load(w) ==
    /\ phase = "up" /\ pc[w] = "authed"
    /\ \E r \in Requests(read_db(file), req[w].uid) : Run(w, r)

\* register takes no token: its first step is its read_db
Register(w) ==
    /\ phase = "up" /\ pc[w] = "idle"
    /\ \E r \in RegisterRequests : Run(w, r)

\* write_db(data), then the response
Commit(w) ==
    /\ phase = "up" /\ pc[w] = "loaded"
    /\ file' = write_db(pending[w])
    /\ pc' = [pc EXCEPT ![w] = "idle"]
    /\ req' = [req EXCEPT ![w] = NoReq]
    /\ pending' = [pending EXCEPT ![w] = _empty_db]
    /\ resp' = 200
    /\ UNCHANGED << nextId, phase, boots, nreq, norm >>

Next ==
    \/ Startup
    \/ \E w \in Workers : AuthFail(w)
    \/ \E w \in Workers : Auth(w)
    \/ \E w \in Workers : Load(w)
    \/ \E w \in Workers : Register(w)
    \/ \E w \in Workers : Commit(w)

Spec == Init /\ [][Next]_vars

(***************************************************************************)
(* Booting on the dataset files an earlier run may have left: _startup,    *)
(* the process stopped, _startup again.                                    *)
(***************************************************************************)
InitBoot == InitWith(InitFiles)

NextBoot == Startup \/ Shutdown

SpecBoot == InitBoot /\ [][NextBoot]_vars

(***************************************************************************)
(* The views on the datasets startup leaves: one client, only read-only    *)
(* requests.                                                               *)
(***************************************************************************)
LoadView(w) ==
    /\ phase = "up" /\ pc[w] = "authed"
    /\ \E r \in ViewRequests(req[w].uid) : Run(w, r)

NextView == Startup \/ Auth("w1") \/ LoadView("w1")

SpecView == InitBoot /\ [][NextView]_vars

(***************************************************************************)
(* The normalizer on one input: normalize_line, normalize_line on its      *)
(* result, total_of_line on the normalized line.                           *)
(***************************************************************************)
InitNorm ==
    /\ norm \in {[NormIdle EXCEPT !.stage = "raw", !.raw = x] : x \in RawInputs}
    /\ file = _empty_db
    /\ nextId = 0
    /\ phase = "down"
    /\ boots = 0
    /\ pc = [w \in Workers |-> "idle"]
    /\ req = [w \in Workers |-> NoReq]
    /\ pending = [w \in Workers |-> _empty_db]
    /\ nreq = 0
    /\ resp = 0

NormFrame == UNCHANGED << file, nextId, phase, boots, pc, req, pending, nreq, resp >>

NormOnce ==
    /\ norm.stage = "raw"
    /\ \/ /\ normalize_raises(norm.raw)
          /\ norm' = [norm EXCEPT !.stage = "raised"]
       \/ /\ ~normalize_raises(norm.raw)
          /\ norm' = [norm EXCEPT !.stage = "once",
                                  !.once = normalize_line(norm.raw, 0)]
    /\ NormFrame

NormTwice ==
    /\ norm.stage = "once"
    /\ ~normalize_raises(norm.once)
    /\ norm' = [norm EXCEPT !.stage = "twice",
                            !.twice = normalize_line(norm.once, normalize_ids(norm.raw))]
    /\ NormFrame

NormTotal ==
    /\ norm.stage = "twice"
    /\ \/ /\ total_raises(norm.once)
          /\ norm' = [norm EXCEPT !.stage = "total_raised"]
       \/ /\ ~total_raises(norm.once)
          /\ norm' = [norm EXCEPT !.stage = "total", !.total = total_of_line(norm.once)]
    /\ NormFrame

NextNorm == NormOnce \/ NormTwice \/ NormTotal

SpecNorm == InitNorm /\ [][NextNorm]_vars

(***************************************************************************)
(* Claims about the normalizer (SpecNorm).                                 *)
(***************************************************************************)
\* the data model's invariants of a line (1 and 0 are Python's True and False)
WellFormedSub(x) ==
    /\ x.dict
    /\ Truthy(x.id)
    /\ x.label.k \notin {"missing", "none"}
    /\ x.amount.k = "num"

WellFormedLine(l) ==
    /\ Truthy(l.id)
    /\ l.type \in {Str("income"), Str("expense")}
    /\ l.category.k = "str" /\ Truthy(l.category)
    /\ l.base_amount.k = "num"
    /\ l.subitems.k = "list"
    /\ \A j \in 1..Len(l.subitems.items) : WellFormedSub(l.subitems.items[j])
    /\ \/ l.is_variable.k \in {"bool", "none"}
       \/ l.is_variable.k = "num" /\ l.is_variable.n \in {0, 1}

\* C5: normalize_line returns for every input mapping, without raising, a
\* line with an id, a type in {income, expense}, a non-empty category, a float
\* base_amount, subitems that each have id, label and a float amount, and
\* is_variable in {true, false, unset}.
C5_NormalizeTotalWellFormed ==
    /\ norm.stage # "raised"
    /\ norm.stage \in {"once", "twice", "total", "total_raised"}
          => WellFormedLine(norm.once)

\* C6: normalize_line is idempotent: applied to a line it returned, it
\* returns that line again (no new id, no field changed).
C6_NormalizeIdempotent ==
    norm.stage \in {"twice", "total", "total_raised"} => norm.twice = norm.once

\* a second application done on a line whose id and whose subitem's id the
\* first application generated
C6_Witness ==
    /\ norm.stage = "twice"
    /\ ~Truthy(norm.raw.id)
    /\ norm.once.id = Uuid(1)
    /\ Len(norm.once.subitems.items) = 2
    /\ norm.once.subitems.items[2].id.s = "uuid"
    /\ norm.raw.base_amount = Str("abc")

RECURSIVE SumOfNums(_)
SumOfNums(items) ==
    IF items = << >> THEN 0 ELSE Head(items).amount.n + SumOfNums(Tail(items))

\* C10: total_of_line(normalize_line(l)) returns the sum of the subitem
\* amounts when the subitem list is non-empty, and otherwise the line's
\* base_amount.
C10_TotalOfNormalized ==
    /\ norm.stage # "total_raised"
    /\ norm.stage = "total" =>
          IF norm.once.subitems.items # << >>
          THEN norm.total = SumOfNums(norm.once.subitems.items)
          ELSE Num(norm.total) = norm.once.base_amount

(***************************************************************************)
(* Claims about the request handlers (Spec).                               *)
(***************************************************************************)
HasUser(d, u) == \E i \in 1..Len(d.users) : d.users[i] = u
HasLine(d, l) == \E j \in 1..Len(d.lines) : d.lines[j] = l

\* the lines a request run on its own does not touch
NotTargeted(r, l) ==
    CASE r.op \in {"register", "create_line"} -> TRUE
      [] r.op \in {"update_line", "delete_line", "add_subitem", "delete_subitem"} ->
            ~(Get(l.id) = r.line_id /\ Get(l.user_id) = r.uid)
      [] OTHER -> Get(l.user_id) # r.uid

\* C1: the requests are serialized end to end, so no completed request's
\* change is lost: when a request writes, every user and every line it does
\* not target that is in the persisted dataset is still there afterwards.
C1_NoLostUpdate ==
    [][\A w \in Workers :
          (pc[w] = "loaded" /\ pc'[w] = "idle" /\ phase' = "up") =>
             /\ \A i \in 1..Len(file.users) : HasUser(file', file.users[i])
             /\ \A j \in 1..Len(file.lines) :
                   NotTargeted(req[w], file.lines[j]) => HasLine(file', file.lines[j])
      ]_vars

\* the category name a category request names
NamedCategory(r) ==
    IF r.op = "delete_category" THEN r.name ELSE StripV(Or(r.body.old, Str(""))).s

\* from d to d2 nothing changed but the category of uid's lines in category name
OnlyOwnCategoryChanged(d, d2, uid, name) ==
    /\ d2.users = d.users
    /\ d2.version = d.version
    /\ Len(d2.lines) = Len(d.lines)
    /\ \A j \in 1..Len(d.lines) :
          /\ [d2.lines[j] EXCEPT !.category = d.lines[j].category] = d.lines[j]
          /\ d.lines[j].user_id # uid => d2.lines[j] = d.lines[j]
          /\ (d.lines[j].category.k = "str"
              /\ Lower(d.lines[j].category.s) # Lower(name)) => d2.lines[j] = d.lines[j]

\* C2: what rename_category and delete_category of user U write differs from
\* what they read in nothing but the category of U's lines whose category
\* matches; the lines of other users are as they were.
C2_CategoryEditsOwnLinesOnly ==
    [][\A w \in Workers :
          (/\ pc[w] = "authed" /\ pc'[w] = "loaded"
           /\ req'[w].op \in {"rename_category", "delete_category"}) =>
             OnlyOwnCategoryChanged(read_db(file), pending'[w], req'[w].uid,
                                    NamedCategory(req'[w]))
      ]_vars

\* a rename about to be written that changed the caller's line and kept
\* another user's line of the same category, case aside
C2_Witness ==
    \E w \in Workers :
        /\ pc[w] = "loaded" /\ req[w].op = "rename_category"
        /\ Len(pending[w].lines) = Len(file.lines)
        /\ \E j, k \in 1..Len(file.lines) :
              /\ file.lines[j].user_id # req[w].uid
              /\ Lower(file.lines[j].category.s) = "food"
              /\ pending[w].lines[j] = file.lines[j]
              /\ file.lines[k].user_id = req[w].uid
              /\ file.lines[k].category = Str("Food")
              /\ pending[w].lines[k].category = Str("Groceries")

\* C3: once the startup migrations have completed, every stored line has a
\* user_id that is the id of exactly one user of the dataset.
C3_EveryLineOwned ==
    phase = "up" =>
        \A j \in 1..Len(file.lines) :
            Cardinality({i \in 1..Len(file.users) :
                            file.users[i].id = file.lines[j].user_id}) = 1

\* C4: a user record in the persisted dataset is there in every later state.
C4_UsersNeverRemoved ==
    [][\A i \in 1..Len(file.users) : HasUser(file', file.users[i])]_vars

\* the caller owns no line of that id, or (delete_subitem) none with that subitem
NotFoundCase(r, d) ==
    LET own == {j \in 1..Len(d.lines) :
                   Get(d.lines[j].id) = r.line_id /\ Get(d.lines[j].user_id) = r.uid}
    IN  \/ own = {}
        \/ /\ r.op = "delete_subitem"
           /\ \A j \in own :
                 \A i \in 1..Len(d.lines[j].subitems.items) :
                    Get(d.lines[j].subitems.items[i].id) # r.sub_id

\* the inputs the claim calls invalid
InvalidInput(r) ==
    CASE r.op = "create_line" ->
            \/ ~Truthy(StripV(Or(r.body.label, Str(""))))
            \/ StripV(Or(r.body.type, Str(""))) \notin {Str("income"), Str("expense")}
      [] r.op = "update_line" ->
            /\ r.body.type.k # "missing"
            /\ StripV(Or(r.body.type, Str(""))) \notin {Str("income"), Str("expense")}
      [] r.op = "rename_category" ->
            \/ ~Truthy(StripV(Or(r.body.old, Str(""))))
            \/ ~Truthy(StripV(Or(r.body.new, Str(""))))
      [] OTHER -> FALSE

\* worker w's handler answered with status code and wrote nothing
Refused(w, code) ==
    /\ resp' = code
    /\ file' = file
    /\ pc'[w] = "idle"
    /\ pending' = pending

C9_NotFoundLeavesDataset ==
    [][\A w \in Workers :
          (pc[w] = "authed" /\ pc'[w] # "authed") =>
          \A r \in Requests(read_db(file), req[w].uid) :
             (/\ r.op # "none"
              /\ r.op \in {"update_line", "delete_line", "add_subitem", "delete_subitem"}
              /\ NotFoundCase(r, read_db(file))
              /\ Run(w, r)) => Refused(w, 404)
      ]_vars

\* not found has just been answered while two users have lines
C9_Witness ==
    /\ phase = "up" /\ resp = 404
    /\ \E j, k \in 1..Len(file.lines) : file.lines[j].user_id # file.lines[k].user_id

(***************************************************************************)
(* Claims about the startup migrations (SpecBoot).                         *)
(***************************************************************************)
\* C7: the startup sequence run again directly after it ran leaves lines,
\* users and version as the first run left them.
C7_StartupIdempotent ==
    [][(phase = "down" /\ boots >= 1 /\ phase' # "down") =>
          (phase' = "up" /\ file' = file)]_vars

\* the second run has ended on a dataset whose user was seeded and whose
\* line got its id and its owner from the first run
C7_Witness ==
    /\ phase = "up" /\ boots = 2
    /\ Len(file.users) = 1 /\ file.users[1].id.s = "uuid"
    /\ \E j \in 1..Len(file.lines) :
          file.lines[j].id.s = "uuid" /\ file.lines[j].user_id = file.users[1].id

(***************************************************************************)
(* Further claims about the request handlers (Spec).                       *)
(***************************************************************************)
\* the request touches a line's subitems and names no other field
SubitemsOnly(r) ==
    \/ r.op \in {"add_subitem", "delete_subitem"}
    \/ /\ r.op = "update_line"
       /\ r.body.subitems.k # "missing"
       /\ \A k \in {"label", "type", "category", "base_amount"} : r.body[k].k = "missing"

\* C11: add_subitem, delete_subitem and update_line with only a subitems
\* field hand to write_db a dataset in which every line has the base_amount
\* it had in the dataset read, whatever requests came before.
C11_SubitemsKeepBaseAmount ==
    [][\A w \in Workers :
          (pc[w] = "authed" /\ pc'[w] = "loaded" /\ SubitemsOnly(req'[w])) =>
             /\ Len(pending'[w].lines) = Len(file.lines)
             /\ \A j \in 1..Len(file.lines) :
                   pending'[w].lines[j].base_amount = file.lines[j].base_amount
      ]_vars

\* a subitem of a line with base_amount 5 is about to be deleted, after an
\* earlier request was served
C11_Witness ==
    \E w \in Workers :
        /\ pc[w] = "loaded" /\ req[w].op = "delete_subitem" /\ nreq = 2
        /\ Len(pending[w].lines) = Len(file.lines)
        /\ \E j \in 1..Len(file.lines) :
              /\ Get(file.lines[j].id) = req[w].line_id
              /\ file.lines[j].base_amount = Num(5)
              /\ pending[w].lines[j].base_amount = Num(5)
              /\ Len(pending[w].lines[j].subitems.items)
                    < Len(file.lines[j].subitems.items)

\* line l is the caller's and in category name, case aside
InCategory(l, uid, name) ==
    /\ l.user_id = uid
    /\ l.category.k = "str" /\ Lower(l.category.s) = Lower(name)

\* C13: delete_category without a target hands to write_db the lines it
\* read, none missing, each of the caller's lines in the named category (case
\* aside) now in "sonstige ausgaben" if an expense and in "sonstige
\* einnahmen" if an income.
C13_DeleteCategoryFallsBackByType ==
    [][\A w \in Workers :
          (/\ pc[w] = "authed" /\ pc'[w] = "loaded"
           /\ req'[w].op = "delete_category" /\ ~Truthy(req'[w].target)) =>
             /\ Len(pending'[w].lines) = Len(file.lines)
             /\ \A j \in 1..Len(file.lines) :
                   /\ pending'[w].lines[j].id = file.lines[j].id
                   /\ InCategory(file.lines[j], req'[w].uid, req'[w].name) =>
                         /\ file.lines[j].type = Str("expense") =>
                               pending'[w].lines[j].category = Str("sonstige ausgaben")
                         /\ file.lines[j].type = Str("income") =>
                               pending'[w].lines[j].category = Str("sonstige einnahmen")
      ]_vars

\* two such requests are about to be written: one moved an expense line out
\* of "Food", the other an income line out of "food"
C13_Witness ==
    \E v, w \in Workers :
        /\ pc[v] = "loaded" /\ req[v].op = "delete_category" /\ ~Truthy(req[v].target)
        /\ pc[w] = "loaded" /\ req[w].op = "delete_category" /\ ~Truthy(req[w].target)
        /\ Len(pending[v].lines) = 2 /\ Len(pending[w].lines) = 2 /\ Len(file.lines) = 2
        /\ file.lines[1].category = Str("Food") /\ file.lines[1].type = Str("expense")
        /\ pending[v].lines[1].category = Str("sonstige ausgaben")
        /\ file.lines[2].category = Str("food") /\ file.lines[2].type = Str("income")
        /\ pending[w].lines[2].category = Str("sonstige einnahmen")

\* C15: no two users of the persisted dataset have usernames that are
\* equal case aside, whatever registers and seeding ran and however they
\* interleaved.
C15_UsernamesUnique ==
    \A i, j \in 1..Len(file.users) :
        Lower(file.users[i].username) = Lower(file.users[j].username) => i = j

\* a register was refused while the dataset holds the seeded thom7e and a
\* user registered since
C15_Witness ==
    /\ phase = "up" /\ resp = 400
    /\ Len(file.users) >= 2
    /\ file.users[1].username = "thom7e" /\ file.users[1].id.s = "uuid"

\* C17: what delete_category(name, target) of user U hands to write_db is
\* a dataset for which U's categories listing does not contain name.
C17_DeletedCategoryIsGone ==
    [][\A w \in Workers :
          (/\ pc[w] = "authed" /\ pc'[w] = "loaded"
           /\ req'[w].op = "delete_category") =>
             Str(req'[w].name) \notin categories(pending'[w], req'[w].uid)
      ]_vars

(***************************************************************************)
(* Claims about the views (SpecView).                                      *)
(***************************************************************************)
\* the sum of the total fields of a summary's categories
RECURSIVE SumOfTotals(_)
SumOfTotals(cats) ==
    IF DOMAIN cats = {} THEN 0
    ELSE LET c == CHOOSE c \in DOMAIN cats : TRUE
         IN  cats[c] + SumOfTotals([d \in DOMAIN cats \ {c} |-> cats[d]])

\* C12: on every dataset startup leaves and for every user, summary answers
\* with net = income - expense and with category totals that add up to
\* income - expense.
C12_SummaryBalances ==
    [][(pc["w1"] = "authed" /\ pc'["w1"] = "idle") =>
          \A r \in ViewRequests(req["w1"].uid) :
             (r.op = "summary" /\ Run("w1", r)) =>
                /\ resp' = 200
                /\ LET s == summary(read_db(file), r.uid, nextId)
                   IN  /\ s.net = s.income - s.expense
                       /\ SumOfTotals(s.categories) = s.income - s.expense
      ]_vars

(***************************************************************************)
(* Further claims about the startup migrations (SpecBoot).                 *)
(***************************************************************************)
\* C14: migrate_attach_orphans, run by startup on a dataset with a user,
\* gives every line that lacked a user_id the id of the user named "thom7e"
\* (case aside) if there is one and of the first user otherwise, and leaves
\* the users and the lines that had a user_id as they were.
C14_OrphansGoToPreferredUser ==
    [][(phase = "down" /\ phase' = "up") =>
          LET d == StartupSeeded(file, nextId)
              thom == {i \in 1..Len(d.users) : Lower(d.users[i].username) = "thom7e"}
          IN  /\ Len(d.users) >= 1
              /\ file'.users = d.users
              /\ Len(file'.lines) = Len(d.lines)
              /\ \A j \in 1..Len(d.lines) :
                    IF d.lines[j].user_id.k \in {"missing", "none"}
                    THEN /\ [file'.lines[j] EXCEPT !.user_id = d.lines[j].user_id]
                               = d.lines[j]
                         /\ IF thom # {}
                            THEN \E i \in thom : file'.lines[j].user_id = d.users[i].id
                            ELSE file'.lines[j].user_id = d.users[1].id
                    ELSE file'.lines[j] = d.lines[j]
      ]_vars

\* the first startup has run on a file with users bob and Thom7e, in that
\* order, and a line no user owned: it is Thom7e's now
C14_Witness ==
    /\ phase = "up" /\ boots = 1
    /\ Len(file.users) = 2
    /\ file.users[1].username = "bob" /\ file.users[2].username = "Thom7e"
    /\ \E j \in 1..Len(file.lines) : file.lines[j].user_id = file.users[2].id

\* C16: once startup has run, every stored line has an id and no two stored
\* lines have the same id, whatever the dataset file was.
C16_LineIdsPresentAndUnique ==
    phase = "up" =>
        /\ \A j \in 1..Len(file.lines) : Truthy(file.lines[j].id)
        /\ \A i, j \in 1..Len(file.lines) :
              file.lines[i].id = file.lines[j].id => i = j

(***************************************************************************)
(* The views compared (SpecView).                                          *)
(***************************************************************************)
\* C18: on every dataset startup leaves and for every user, summary and
\* groups answer, and the category names in their results are exactly the
\* names categories lists from the stored lines.
C18_ViewsAgreeOnCategories ==
    [][(pc["w1"] = "authed" /\ pc'["w1"] = "idle") =>
          \A r \in ViewRequests(req["w1"].uid) :
             (r.op \in {"summary", "groups"} /\ Run("w1", r)) =>
                /\ resp' = 200
                /\ LET d == read_db(file)
                       s == summary(d, r.uid, nextId)
                       g == groups(d, r.uid, nextId)
                   IN  /\ DOMAIN s.categories = categories(d, r.uid)
                       /\ {g[k].category : k \in DOMAIN g} = categories(d, r.uid)
      ]_vars

====
